---------------------------- MODULE Spec2Model ----------------------------
(***************************************************************************)
(* Model of the profiler package: the facade Profile (profile.py), its two *)
(* backends EnabledProfiler (enabled_profiler.py) and DisabledProfiler     *)
(* (disabled_profiler.py), and the process-global cProfile handle          *)
(* timingProf that every EnabledProfiler shares.                           *)
(*                                                                         *)
(* Two facade instances A and B live in one process.  Every facade method  *)
(* is one action; an exception a method raises is caught by the caller and *)
(* recorded in `last`, after which the caller goes on calling.             *)
(*                                                                         *)
(* A method is an operator from a world (the instance's backend, the       *)
(* shared profiler, standard output, the file system) to the world the     *)
(* call leaves, with the exception it raised in field exc ("" for a normal *)
(* return).                                                                *)
(***************************************************************************)
EXTENDS Naturals, Sequences, FiniteSets

\* Bound of the model: number of calls the application makes.
MaxOps == 3

\* Python's None, and the marker of an instance attribute never assigned.
None == "None"
Unset == "<unset>"
\* A call that leaves a defaulted parameter out.
NoArg == "<noarg>"

Inst == {"A", "B"}

\* filename arguments given to Profile(...): left out (the default ""), None,
\* or a path.
FilenameArgs == {NoArg, None, "out.txt"}
\* Paths open() can open; open("") raises IOError.
ValidPaths == {"out.txt"}

Comments == {"a", "b"}
Modules == {None, "m"}
\* Functions of the application whose calls the profiler can record.
Funcs == {"f"}
\* What memory_usage() can return (a list of readings), or that it raised.
Readings == {"r1"}
Raises == "<raises>"

VARIABLES
    ctor,          \* ctor[i]: the arguments instance i was constructed with
    profiler,      \* Profile.profiler of each instance: its backend object
    profile_file,  \* Profile.profile_file of each instance
    timingProf,    \* the module-level cProfile.Profile() handle
    stdout,        \* what has been printed to standard output, in order
    fs,            \* fs[path]: what has been written to the file, in order
    last,          \* the last call: instance, method, argument, exception
    mem,           \* per instance: history of the sample_memory calls
    enabler,       \* the instance whose enable() last reached the profiler
    recorded,      \* <<i, f>>: a call of f was recorded while enabler was i
    nops           \* number of calls made

vars == <<ctor, profiler, profile_file, timingProf, stdout, fs, last, mem,
          enabler, recorded, nops>>

-----------------------------------------------------------------------------
(* Output items.  A printed line and a pstats report share one record shape. *)

Line(t) == [what |-> "line", text |-> t, sort |-> <<>>, entries |-> {},
            restrict |-> None]

\* A pstats report: which print method, the sort keys in force, the entries
\* of the snapshot (directories stripped), the module restriction.
Report(what, sort, entries, restrict) ==
    [what |-> what, text |-> "", sort |-> sort, entries |-> entries,
     restrict |-> restrict]

Separator == "------------------------------------------------"

-----------------------------------------------------------------------------
(* The libraries the backends call, by what each call does to the state the *)
(* package can observe.                                                      *)

Raise(w, e) == [w EXCEPT !.exc = e]

\* timingProf.enable(): the profiler records calls from now on.
timingProf_enable(tp) == [tp EXCEPT !.running = TRUE]

\* timingProf.disable(): recording stops.  A profiler that was recording has
\* recorded this call of disable itself.
timingProf_disable(tp) ==
    IF tp.running
    THEN [running |-> FALSE, entries |-> tp.entries \cup {"disable"}]
    ELSE tp

\* timingProf.create_stats(): disable(), then snapshot the recorded entries.
timingProf_create_stats(tp) == timingProf_disable(tp)

\* open(path, mode): None is no path (TypeError), "" cannot be opened (IOError).
OpenError(path) ==
    IF path = None THEN "TypeError"
    ELSE IF path \notin ValidPaths THEN "IOError"
    ELSE ""

\* pstats.Stats(timingProf, ...): calls timingProf.create_stats() and takes the
\* snapshot; a profiler that has recorded nothing makes it raise TypeError.
pstats_Stats(w) ==
    LET tp1 == timingProf_create_stats(w.tp)
    IN  IF tp1.entries = {}
        THEN [w EXCEPT !.tp = tp1, !.exc = "TypeError"]
        ELSE [w EXCEPT !.tp = tp1]

-----------------------------------------------------------------------------
(* EnabledProfiler                                                           *)

EnabledProfiler__init__(outFilename) ==
    [class |-> "EnabledProfiler",
     is_sammpling_memory |-> FALSE,
     streaming |-> (outFilename # None),
     streamFile |-> IF outFilename # None THEN outFilename ELSE Unset,
     streamStats |-> Unset,
     comment |-> Unset,
     memoryProf |-> Unset]

Enabled_enable(w) == [w EXCEPT !.tp = timingProf_enable(w.tp)]

\* memory() without the is_sammpling_memory check: every call samples.
Enabled_memory_resample(w, interval, comment, r) ==
    LET w1 == [w EXCEPT !.prof.is_sammpling_memory = TRUE,
                        !.prof.comment = comment,
                        !.nsamp = @ + 1]
    IN  IF r = Raises
        THEN Raise(w1, "LibraryError")
        ELSE [w1 EXCEPT !.prof.memoryProf = r]

\* r is what the memory_usage() call of this invocation does: the readings it
\* returns, or Raises.  nsamp counts the memory_usage() calls made.
Enabled_memory(w, interval, comment, r) ==
    IF ~w.prof.is_sammpling_memory
    THEN LET w1 == [w EXCEPT !.prof.is_sammpling_memory = TRUE,
                             !.prof.comment = comment,
                             !.nsamp = @ + 1]
         IN  IF r = Raises
             THEN Raise(w1, "LibraryError")
             ELSE [w1 EXCEPT !.prof.memoryProf = r]
    ELSE w

\* disable() with enable()'s body.
Enabled_disable_pasted(w) == [w EXCEPT !.tp = timingProf_enable(w.tp)]

Enabled_disable(w) == [w EXCEPT !.tp = timingProf_disable(w.tp)]

Enabled_create_stats(w) == [w EXCEPT !.tp = timingProf_create_stats(w.tp)]

\* cProfile's print_stats: pstats.Stats(self).strip_dirs().sort_stats(-1)
\* .print_stats(), on standard output.
Enabled_print_stats(w) ==
    LET w1 == pstats_Stats(w)
    IN  IF w1.exc # "" THEN w1
        ELSE [w1 EXCEPT !.out =
                Append(@, Report("print_stats", <<"stdname">>, w1.tp.entries, None))]

\* cProfile's dump_stats: open(fname, 'wb'), create_stats(), marshal.dump, close.
Enabled_dump_stats(w, fname) ==
    IF OpenError(fname) # "" THEN Raise(w, OpenError(fname))
    ELSE LET tp1 == timingProf_create_stats(w.tp)
         IN  [w EXCEPT !.tp = tp1,
                       !.fs[fname] = <<Report("dump", <<>>, tp1.entries, None)>>]

\* nargs: the number of arguments the caller passes after self.
Enabled_run(w, nargs) == IF nargs = 1 THEN w ELSE Raise(w, "TypeError")

Enabled_runcall(w) == w

\* The block every report method starts with: the sink (the file opened in
\* append mode and kept in self.streamStats, or standard output) and the
\* pstats.Stats object on it.
OpenSink(w) ==
    IF w.prof.streaming
    THEN IF OpenError(w.prof.streamFile) # ""
         THEN Raise(w, OpenError(w.prof.streamFile))
         ELSE pstats_Stats([w EXCEPT !.prof.streamStats = "open"])
    ELSE pstats_Stats(w)

\* A print method of the Stats object writes to the stream it was made with.
Emit(w, item) ==
    IF w.prof.streaming
    THEN [w EXCEPT !.fs[w.prof.streamFile] = Append(@, item)]
    ELSE [w EXCEPT !.out = Append(@, item)]

Enabled_statistics(w) ==
    LET w1 == OpenSink(w)
    IN  IF w1.exc # "" THEN w1
        ELSE LET w2 == [w1 EXCEPT !.tp = timingProf_create_stats(@)]
                 w3 == Emit(w2, Report("print_stats", <<"module", "name", "time">>,
                                       w1.tp.entries, None))
             IN  IF w3.prof.streamStats = Unset
                 THEN Raise(w3, "AttributeError")
                 ELSE [w3 EXCEPT !.prof.streamStats = "closed"]

Enabled_statistics_calls(w) ==
    LET w1 == OpenSink(w)
    IN  IF w1.exc # "" THEN w1
        ELSE LET w2 == [w1 EXCEPT !.tp = timingProf_create_stats(@)]
                 w3 == Emit(w2, Report("print_callers", <<"module", "name", "time">>,
                                       w1.tp.entries, None))
             IN  Emit(w3, Report("print_callees", <<"module", "name", "time">>,
                                 w1.tp.entries, None))

PrintLine(w, t) == [w EXCEPT !.out = Append(@, Line(t))]

\* Reading an attribute never assigned raises AttributeError, after the lines
\* already printed.
Enabled_mem_used(w) ==
    IF w.prof.is_sammpling_memory
    THEN LET w2 == PrintLine(PrintLine(w, Separator), "Memory usage (in Mb)")
         IN  IF w.prof.comment = Unset THEN Raise(w2, "AttributeError")
             ELSE LET w3 == PrintLine(w2, w.prof.comment)
                  IN  IF w.prof.memoryProf = Unset THEN Raise(w3, "AttributeError")
                      ELSE PrintLine(PrintLine(w3, w.prof.memoryProf), Separator)
    ELSE w

Enabled_module_stats(w, module) ==
    IF module = None THEN Enabled_statistics(w)
    ELSE LET w1 == OpenSink(w)
         IN  IF w1.exc # "" THEN w1
             ELSE LET w2 == [w1 EXCEPT !.tp = timingProf_create_stats(@)]
                  IN  Emit(w2, Report("print_stats", <<"name", "ncalls", "time">>,
                                      w1.tp.entries, module))

\* module_stats_calls() without the delegation of module None to statistics().
Enabled_module_stats_calls_nodelegate(w, module) ==
    LET w1 == OpenSink(w)
    IN  IF w1.exc # "" THEN w1
        ELSE LET w2 == [w1 EXCEPT !.tp = timingProf_create_stats(@)]
             IN  Emit(w2, Report("print_callees", <<"name", "ncalls", "time">>,
                                 w1.tp.entries, module))

Enabled_module_stats_calls(w, module) ==
    IF module = None THEN Enabled_statistics(w)
    ELSE LET w1 == OpenSink(w)
         IN  IF w1.exc # "" THEN w1
             ELSE LET w2 == [w1 EXCEPT !.tp = timingProf_create_stats(@)]
                  IN  Emit(w2, Report("print_callees", <<"name", "ncalls", "time">>,
                                      w1.tp.entries, module))

-----------------------------------------------------------------------------
(* DisabledProfiler: an object without attributes whose methods are `pass`.  *)

DisabledProfiler__init__ == [class |-> "DisabledProfiler"]

Disabled_mem_used(w) == w
Disabled_memory(w, interval, comment) == w
Disabled_enable(w) == w
Disabled_disable(w) == w
Disabled_create_stats(w) == w
Disabled_print_stats(w) == w
\* def dump_stats(self): any argument after self is a TypeError.
Disabled_dump_stats(w, nargs) == IF nargs = 0 THEN w ELSE Raise(w, "TypeError")
\* def run(self, command = None): more than one argument is a TypeError.
Disabled_run(w, nargs) == IF nargs <= 1 THEN w ELSE Raise(w, "TypeError")
Disabled_runcall(w) == w
Disabled_statistics(w) == w
Disabled_module_stats(w, module) == w
Disabled_statistics_calls(w) == w
Disabled_module_stats_calls(w, module) == w

-----------------------------------------------------------------------------
(* Profile, the facade.  self is the world's prof (self.profiler) and        *)
(* profile_file (self.profile_file).                                         *)

\* The sampling interval sample_memory passes.
Interval == 1

\* __init__ with the test of is_enabled inverted.
Profile__init__swapped(is_enabled, filename) ==
    LET file == IF filename = NoArg THEN "" ELSE filename
    IN  [profile_file |-> file,
         profiler |-> IF ~is_enabled
                      THEN EnabledProfiler__init__(file)
                      ELSE DisabledProfiler__init__]

Profile__init__(is_enabled, filename) ==
    LET file == IF filename = NoArg THEN "" ELSE filename
    IN  [profile_file |-> file,
         profiler |-> IF is_enabled
                      THEN EnabledProfiler__init__(file)
                      ELSE DisabledProfiler__init__]

IsEnabledProfiler(w) == w.prof.class = "EnabledProfiler"

Profile_enable(w) ==
    IF IsEnabledProfiler(w) THEN Enabled_enable(w) ELSE Disabled_enable(w)

Profile_sample_memory(w, comment, r) ==
    IF IsEnabledProfiler(w)
    THEN Enabled_memory(w, Interval, comment, r)
    ELSE Disabled_memory(w, Interval, comment)

Profile_disable(w) ==
    IF IsEnabledProfiler(w) THEN Enabled_disable(w) ELSE Disabled_disable(w)

Profile_create_stats(w) ==
    IF IsEnabledProfiler(w) THEN Enabled_create_stats(w) ELSE Disabled_create_stats(w)

Profile_memory_usage(w) ==
    IF IsEnabledProfiler(w) THEN Enabled_mem_used(w) ELSE Disabled_mem_used(w)

Profile_print_stats(w) ==
    IF IsEnabledProfiler(w) THEN Enabled_print_stats(w) ELSE Disabled_print_stats(w)

\* self.profiler.dump_stats(self.profile_file): one argument after self.
Profile_dump_stats(w) ==
    IF IsEnabledProfiler(w)
    THEN Enabled_dump_stats(w, w.profile_file)
    ELSE Disabled_dump_stats(w, 1)

\* The class defines run twice; the second definition, run(self, command,
\* globals, locals), is the one the class keeps.  It passes all three
\* arguments to the backend's run.  nargs: the arguments the caller passes.
Profile_run(w, nargs) ==
    IF nargs # 3 THEN Raise(w, "TypeError")
    ELSE IF IsEnabledProfiler(w) THEN Enabled_run(w, 3) ELSE Disabled_run(w, 3)

Profile_runcall(w) ==
    IF IsEnabledProfiler(w) THEN Enabled_runcall(w) ELSE Disabled_runcall(w)

Profile_stats(w) ==
    IF IsEnabledProfiler(w) THEN Enabled_statistics(w) ELSE Disabled_statistics(w)

Profile_profile_module(w, module) ==
    IF IsEnabledProfiler(w)
    THEN Enabled_module_stats(w, module)
    ELSE Disabled_module_stats(w, module)

Profile_profile_module_calls(w, module) ==
    IF IsEnabledProfiler(w)
    THEN Enabled_module_stats_calls(w, module)
    ELSE Disabled_module_stats_calls(w, module)

\* statistics_calls has no facade method: the application reaches it through
\* the facade's public attribute, profiler.statistics_calls().
Backend_statistics_calls(w) ==
    IF IsEnabledProfiler(w)
    THEN Enabled_statistics_calls(w)
    ELSE Disabled_statistics_calls(w)

-----------------------------------------------------------------------------
(* The state machine.                                                        *)

\* The world instance i's methods run in.
World(i) ==
    [prof |-> profiler[i], profile_file |-> profile_file[i], tp |-> timingProf,
     out |-> stdout, fs |-> fs, nsamp |-> mem[i].nsamp, exc |-> ""]

Init ==
    /\ ctor \in [Inst -> [is_enabled : BOOLEAN, filename : FilenameArgs]]
    /\ profiler = [i \in Inst |->
                     Profile__init__(ctor[i].is_enabled, ctor[i].filename).profiler]
    /\ profile_file = [i \in Inst |->
                     Profile__init__(ctor[i].is_enabled, ctor[i].filename).profile_file]
    /\ timingProf = [running |-> FALSE, entries |-> {}]
    /\ stdout = <<>>
    /\ fs = [p \in ValidPaths |-> <<>>]
    /\ last = [inst |-> None, op |-> "init", arg |-> None, exc |-> ""]
    /\ mem = [i \in Inst |-> [called |-> FALSE, firstComment |-> Unset,
                              firstData |-> Unset, lastComment |-> Unset,
                              nsamp |-> 0]]
    /\ enabler = None
    /\ recorded = {}
    /\ nops = 0

\* Instance i's method op, called with arg, leaves world w.
Returns(i, op, arg, w) ==
    /\ nops < MaxOps
    /\ nops' = nops + 1
    /\ profiler' = [profiler EXCEPT ![i] = w.prof]
    /\ profile_file' = [profile_file EXCEPT ![i] = w.profile_file]
    /\ timingProf' = w.tp
    /\ stdout' = w.out
    /\ fs' = w.fs
    /\ last' = [inst |-> i, op |-> op, arg |-> arg, exc |-> w.exc]
    /\ UNCHANGED ctor

enable(i) ==
    /\ Returns(i, "enable", None, Profile_enable(World(i)))
    /\ enabler' = IF profiler[i].class = "EnabledProfiler" THEN i ELSE enabler
    /\ UNCHANGED <<mem, recorded>>

sample_memory(i) ==
    \E comment \in Comments, r \in Readings \cup {Raises} :
        /\ Returns(i, "sample_memory", comment,
                   Profile_sample_memory(World(i), comment, r))
        /\ mem' = [mem EXCEPT ![i] =
                     [called |-> TRUE,
                      firstComment |-> IF mem[i].called THEN @.firstComment ELSE comment,
                      firstData |-> IF mem[i].called THEN @.firstData ELSE r,
                      lastComment |-> comment,
                      nsamp |-> Profile_sample_memory(World(i), comment, r).nsamp]]
        /\ UNCHANGED <<enabler, recorded>>

disable(i) ==
    /\ Returns(i, "disable", None, Profile_disable(World(i)))
    /\ UNCHANGED <<mem, enabler, recorded>>

create_stats(i) ==
    /\ Returns(i, "create_stats", None, Profile_create_stats(World(i)))
    /\ UNCHANGED <<mem, enabler, recorded>>

memory_usage(i) ==
    /\ Returns(i, "memory_usage", None, Profile_memory_usage(World(i)))
    /\ UNCHANGED <<mem, enabler, recorded>>

print_stats(i) ==
    /\ Returns(i, "print_stats", None, Profile_print_stats(World(i)))
    /\ UNCHANGED <<mem, enabler, recorded>>

dump_stats(i) ==
    /\ Returns(i, "dump_stats", None, Profile_dump_stats(World(i)))
    /\ UNCHANGED <<mem, enabler, recorded>>

run(i) ==
    \E nargs \in {1, 3} :
        /\ Returns(i, "run", IF nargs = 1 THEN "1" ELSE "3",
                   Profile_run(World(i), nargs))
        /\ UNCHANGED <<mem, enabler, recorded>>

runcall(i) ==
    /\ Returns(i, "runcall", None, Profile_runcall(World(i)))
    /\ UNCHANGED <<mem, enabler, recorded>>

stats(i) ==
    /\ Returns(i, "stats", None, Profile_stats(World(i)))
    /\ UNCHANGED <<mem, enabler, recorded>>

profile_module(i) ==
    \E module \in Modules :
        /\ Returns(i, "profile_module", module,
                   Profile_profile_module(World(i), module))
        /\ UNCHANGED <<mem, enabler, recorded>>

profile_module_calls(i) ==
    \E module \in Modules :
        /\ Returns(i, "profile_module_calls", module,
                   Profile_profile_module_calls(World(i), module))
        /\ UNCHANGED <<mem, enabler, recorded>>

statistics_calls(i) ==
    /\ Returns(i, "statistics_calls", None, Backend_statistics_calls(World(i)))
    /\ UNCHANGED <<mem, enabler, recorded>>

\* The application calls one of its functions; a running profiler records it.
Work ==
    \E f \in Funcs :
        /\ nops < MaxOps
        /\ nops' = nops + 1
        /\ timingProf' = IF timingProf.running
                         THEN [timingProf EXCEPT !.entries = @ \cup {f}]
                         ELSE timingProf
        /\ last' = [inst |-> None, op |-> "work", arg |-> f, exc |-> ""]
        /\ recorded' = IF timingProf.running
                       THEN recorded \cup {<<enabler, f>>}
                       ELSE recorded
        /\ UNCHANGED <<ctor, profiler, profile_file, stdout, fs, mem, enabler>>

Next ==
    \/ \E i \in Inst : enable(i)
    \/ \E i \in Inst : sample_memory(i)
    \/ \E i \in Inst : disable(i)
    \/ \E i \in Inst : create_stats(i)
    \/ \E i \in Inst : memory_usage(i)
    \/ \E i \in Inst : print_stats(i)
    \/ \E i \in Inst : dump_stats(i)
    \/ \E i \in Inst : run(i)
    \/ \E i \in Inst : runcall(i)
    \/ \E i \in Inst : stats(i)
    \/ \E i \in Inst : profile_module(i)
    \/ \E i \in Inst : profile_module_calls(i)
    \/ \E i \in Inst : statistics_calls(i)
    \/ Work

Spec == Init /\ [][Next]_vars

-----------------------------------------------------------------------------
(* Properties.                                                               *)

IsEnabled(i) == profiler[i].class = "EnabledProfiler"

\* This step is instance i's call of method op.
Called(i, op) == nops' = nops + 1 /\ last'.inst = i /\ last'.op = op

\* What a step appended to a sequence that only grows in it.
Added(old, new) == SubSeq(new, Len(old) + 1, Len(new))

\* The five lines mem_used prints for comment c and readings d.
MemBlock(c, d) ==
    <<Line(Separator), Line("Memory usage (in Mb)"), Line(c), Line(d),
      Line(Separator)>>

\* The report statistics() prints.
FullReport(entries) == Report("print_stats", <<"module", "name", "time">>, entries, None)

ReportOps == {"stats", "profile_module", "profile_module_calls"}

\* C1: on a facade constructed with is_enabled = False every public
\* operation returns normally, prints nothing and writes no file.
C1_DisabledFacadeIsSilent ==
    [][\A i \in Inst :
         (nops' = nops + 1 /\ last'.inst = i /\ ~ctor[i].is_enabled)
         => (last'.exc = "" /\ stdout' = stdout /\ fs' = fs)]_vars

\* After the first sample_memory call of an enabled instance: memory_usage()
\* was called once, the stored comment is the first call's and the stored
\* readings are what that call's sampling returned (none if it raised).
C2_First(i) ==
    /\ mem[i].nsamp = 1
    /\ profiler[i].is_sammpling_memory
    /\ profiler[i].comment = mem[i].firstComment
    /\ profiler[i].memoryProf =
         (IF mem[i].firstData = Raises THEN Unset ELSE mem[i].firstData)

C3_MemoryUsageIffSampled ==
    [][\A i \in Inst :
         (IsEnabled(i) /\ Called(i, "memory_usage")) =>
           IF mem[i].called
           THEN Added(stdout, stdout') =
                  MemBlock(profiler[i].comment, profiler[i].memoryProf)
           ELSE /\ stdout' = stdout
                /\ last'.exc = ""
                /\ UNCHANGED <<profiler, profile_file, timingProf, fs>>]_vars

\* The reports among the items a step printed or wrote.
NewReports ==
    {it \in {Added(stdout, stdout')[k] : k \in 1..Len(Added(stdout, stdout'))}
            \cup UNION {{Added(fs[p], fs'[p])[k] :
                            k \in 1..Len(Added(fs[p], fs'[p]))} : p \in ValidPaths} :
        it.what # "line"}

\* C4: on an enabled facade profile_module(None) and
\* profile_module_calls(None) do exactly what stats() does from the same
\* state: the same sink, the sort keys (module, name, time), the same full
\* report, the same exception if any, and the same backend, profiler and
\* file-handle state afterwards.
C4_ModuleNoneIsStats ==
    [][\A i \in Inst :
         (/\ IsEnabled(i)
          /\ (Called(i, "profile_module") \/ Called(i, "profile_module_calls"))
          /\ last'.arg = None)
         => LET s == Profile_stats(World(i))
            IN  /\ profiler'[i] = s.prof
                /\ timingProf' = s.tp
                /\ stdout' = s.out
                /\ fs' = s.fs
                /\ last'.exc = s.exc
                /\ \A it \in NewReports : it = FullReport(timingProf'.entries)]_vars

\* profile_module_calls(None) has written the full report to the file and
\* returned.
C4_Witness ==
    \E i \in Inst :
        /\ IsEnabled(i)
        /\ last = [inst |-> i, op |-> "profile_module_calls", arg |-> None,
                   exc |-> ""]
        /\ profiler[i].streamStats = "closed"
        /\ fs["out.txt"] # <<>>
        /\ fs["out.txt"][Len(fs["out.txt"])] = FullReport(timingProf.entries)

\* C5: on an enabled backend configured with an output file path, each
\* stats() call appends the report to that file (what earlier calls wrote is
\* kept), prints nothing on standard output, and leaves no file handle open.
C5_StatsAppendsAndCloses ==
    [][\A i \in Inst :
         (/\ IsEnabled(i)
          /\ profiler[i].streaming
          /\ profiler[i].streamFile \in ValidPaths
          /\ Called(i, "stats"))
         => LET p == profiler[i].streamFile
            IN  /\ fs'[p] = Append(fs[p], FullReport(timingProf'.entries))
                /\ stdout' = stdout
                /\ profiler'[i].streamStats # "open"]_vars

\* C6: file sinks are scoped to one report call: when statistics(),
\* statistics_calls(), module_stats(m) or module_stats_calls(m) has returned,
\* the file handle the call opened is closed.
C6_ReportClosesHandle ==
    \A i \in Inst :
        (/\ IsEnabled(i)
         /\ last.inst = i
         /\ last.op \in ReportOps \cup {"statistics_calls"}
         /\ last.exc = "")
        => profiler[i].streamStats # "open"

\* C7: the call profiler is one handle shared by all enabled backends.
\* enable() through any enabled facade leaves it running and disable()
\* through any enabled facade leaves it stopped, whoever started it; a call
\* made while it runs is recorded; and every report, through whichever
\* facade it is requested, holds every call recorded so far, whichever
\* facade had enabled the profiler when it was recorded.
C7_SharedProfiler ==
    [][/\ \A i \in Inst :
            /\ (IsEnabled(i) /\ Called(i, "enable")) => timingProf'.running
            /\ (IsEnabled(i) /\ Called(i, "disable")) => ~timingProf'.running
       /\ (nops' = nops + 1 /\ last'.op = "work" /\ timingProf.running)
            => last'.arg \in timingProf'.entries
       /\ \A it \in NewReports : \A r \in recorded' : r[2] \in it.entries]_vars

\* A call recorded while A had enabled the profiler is in the report B
\* obtained with stats().
C7_Witness ==
    /\ IsEnabled("A") /\ IsEnabled("B")
    /\ last = [inst |-> "B", op |-> "stats", arg |-> None, exc |-> ""]
    /\ <<"A", "f">> \in recorded
    /\ fs["out.txt"] # <<>>
    /\ "f" \in fs["out.txt"][Len(fs["out.txt"])].entries

\* The backend is the enabled variant exactly if is_enabled was true at
\* construction, and the configuration is the constructor's.
C8_Bound(i) ==
    /\ IsEnabled(i) <=> ctor[i].is_enabled
    /\ profile_file[i] = Profile__init__(ctor[i].is_enabled, ctor[i].filename).profile_file
    /\ IsEnabled(i) =>
         /\ profiler[i].streaming = (profile_file[i] # None)
         /\ profiler[i].streaming => profiler[i].streamFile = profile_file[i]

\* C8: a facade has one backend for its whole lifetime: it is the enabled
\* variant if and only if is_enabled was true at construction, and no
\* operation replaces it, changes its variant or changes the configured
\* output path.
C8_OneBackend ==
    [][\A i \in Inst :
         /\ C8_Bound(i) /\ C8_Bound(i)'
         /\ profiler'[i].class = profiler[i].class
         /\ profile_file'[i] = profile_file[i]
         /\ IsEnabled(i) =>
              /\ profiler'[i].streaming = profiler[i].streaming
              /\ profiler'[i].streamFile = profiler[i].streamFile]_vars

\* A facade constructed disabled has been through enable() and is still
\* bound to the disabled backend, while the other facade is enabled.
C8_Witness ==
    \E i, j \in Inst :
        /\ ~ctor[i].is_enabled /\ ctor[j].is_enabled
        /\ last.inst = i /\ last.op = "enable"
        /\ profiler[i].class = "DisabledProfiler"
        /\ profiler[j].class = "EnabledProfiler"
        /\ nops = MaxOps

\* C9: with no output file configured (streaming false) and something
\* recorded, statistics(), also when reached through profile_module(None) or
\* profile_module_calls(None), prints the report on standard output and
\* returns normally.
C9_StdoutStatsReturns ==
    [][\A i \in Inst :
         (/\ IsEnabled(i)
          /\ ~profiler[i].streaming
          /\ timingProf_create_stats(timingProf).entries # {}
          /\ \/ Called(i, "stats")
             \/ (Called(i, "profile_module") /\ last'.arg = None)
             \/ (Called(i, "profile_module_calls") /\ last'.arg = None))
         => /\ last'.exc = ""
            /\ stdout' = Append(stdout, FullReport(timingProf'.entries))
            /\ fs' = fs]_vars

\* C10: an enabled facade constructed without a filename has a backend
\* whose streaming flag is false, and none of its report operations fails
\* on opening a file.
C10_NoFilenameMeansStdout ==
    \A i \in Inst :
        (ctor[i].is_enabled /\ ctor[i].filename = NoArg)
        => /\ ~profiler[i].streaming
           /\ ~(last.inst = i /\ last.op \in ReportOps /\ last.exc = "IOError")

\* C11: on an enabled backend the sampling latch being set implies that the
\* comment and the readings are both stored, so memory_usage() never fails
\* on missing data, also when the sampling raised inside sample_memory().
C11_LatchImpliesStored ==
    \A i \in Inst :
        IsEnabled(i) =>
          /\ profiler[i].is_sammpling_memory =>
               (profiler[i].comment # Unset /\ profiler[i].memoryProf # Unset)
          /\ ~(last.inst = i /\ last.op = "memory_usage"
               /\ last.exc = "AttributeError")

=============================================================================
